---- MODULE Spec2Model ----
(***************************************************************************)
(* Model of src/ERP.py: a Streamlit script over two worksheets of one      *)
(* Google spreadsheet ("Transactions", "Projects").  Every script run      *)
(* reads both worksheets in full (lines 53-56), derives the typed views    *)
(* and the aggregates (lines 66-114, 187-209) and then serves at most one  *)
(* form submission, which writes to the worksheet by physical row index.   *)
(*                                                                         *)
(* Cells are strings on the sheet.  The model keeps what a cell's text     *)
(* means for the conversions the script applies to it:                     *)
(*   date cell    << >> is the empty cell, <<y, m, d>> the text "y-m-d"    *)
(*                (zero padded); any other tuple is some other text;       *)
(*   number cell  <<"num", n>> the decimal text of n, <<"empty", 0>> the   *)
(*                empty cell, <<"txt", k>> a non-numeric text;             *)
(*   created_at   the reading of the clock at insertion (str(now())),      *)
(*                0 for the empty cell, -1 for the header's text.          *)
(***************************************************************************)
EXTENDS Integers, Sequences, FiniteSets, TLC

VARIABLES ws_trans, ws_projs, clock, pc, raw_trans, raw_projs, view,
          outcome, pend, log, actors

vars == <<ws_trans, ws_projs, clock, pc, raw_trans, raw_projs, view,
          outcome, pend, log, actors>>

(***************************************************************************)
(* Bounds of the model.                                                    *)
(***************************************************************************)
MaxRows == 3
MaxClock == 3
MaxLegacyRows == 2
MaxRaceRows == 2
MaxRaceClock == 2
MaxProjRows == 2
MaxProjClock == 2

Sessions == {1, 2}

(***************************************************************************)
(* Cell values.                                                            *)
(***************************************************************************)
Num(n) == <<"num", n>>
EmptyCell == <<"empty", 0>>
Abc == <<"txt", 1>>
NoDate == << >>
NotADate == <<2024, 13, 1>>
D1 == <<2024, 1, 15>>
D2 == <<2024, 2, 1>>
D3 == <<2023, 12, 31>>

Overhead == "overhead"

TransHeader ==
  [date |-> <<0>>, type |-> "type", category |-> "category",
   amount |-> <<"txt", 0>>, note |-> "note",
   project_name |-> "project_name", created_at |-> -1]

ProjsHeader ==
  [name |-> "name", total_budget |-> <<"txt", 0>>, start_date |-> <<0>>,
   status |-> "status", progress |-> <<"txt", 0>>, created_at |-> -1,
   end_date |-> <<0>>]

BlankTrans ==
  [date |-> NoDate, type |-> "", category |-> "", amount |-> EmptyCell,
   note |-> "", project_name |-> "", created_at |-> 0]

BlankProj ==
  [name |-> "", total_budget |-> EmptyCell, start_date |-> NoDate,
   status |-> "", progress |-> EmptyCell, created_at |-> 0,
   end_date |-> NoDate]

StatusOptions == <<"active", "closed", "paused">>

(***************************************************************************)
(* Conversions (lines 67-68, 219, 222, 269, 271).                          *)
(***************************************************************************)
IsLeap(y) == (y % 4 = 0 /\ y % 100 # 0) \/ y % 400 = 0

DaysIn(y, m) ==
  IF m = 2 THEN (IF IsLeap(y) THEN 29 ELSE 28)
  ELSE IF m \in {4, 6, 9, 11} THEN 30 ELSE 31

\* the text is a calendar date in the form %Y-%m-%d
IsDateText(c) ==
  /\ Len(c) = 3
  /\ c[1] \in 1..9999
  /\ c[2] \in 1..12
  /\ c[3] \in 1..DaysIn(c[1], c[2])

NaT == << >>

\* pd.to_datetime(..., errors='coerce')
to_datetime(c) == IF IsDateText(c) THEN c ELSE NaT

\* pd.to_numeric(..., errors='coerce').fillna(0)
to_numeric(c) == IF c[1] = "num" THEN c[2] ELSE 0

\* datetime.strptime(c, "%Y-%m-%d") raises ValueError
StrptimeRaises(c) == ~IsDateText(c)

\* float(c) raises ValueError
FloatRaises(c) == c[1] # "num"

\* df['date'].dt.strftime('%Y-%m'): "2024-01" is kept as 202401, whose
\* order is the lexicographic order of the zero-padded text
MonthOf(d) == d[1] * 100 + d[2]

(***************************************************************************)
(* The worksheet operations of gspread used by the script.                 *)
(***************************************************************************)
RECURSIVE Trim(_, _)
Trim(ws, blank) ==
  IF Len(ws) > 1 /\ ws[Len(ws)] = blank
  THEN Trim(SubSeq(ws, 1, Len(ws) - 1), blank)
  ELSE ws

\* get_all_values(): the rows up to the last non-empty one
get_all_values(ws, blank) == Trim(ws, blank)

\* the row values.append writes to: the one after the last non-empty row
AppendIndex(ws, blank) == Len(Trim(ws, blank)) + 1

\* the sheet with row r present (empty rows of the grid made explicit)
Pad(ws, r, blank) ==
  [i \in 1..(IF r > Len(ws) THEN r ELSE Len(ws)) |->
     IF i <= Len(ws) THEN ws[i] ELSE blank]

append_row(ws, row, blank) ==
  [Pad(ws, AppendIndex(ws, blank), blank) EXCEPT ![AppendIndex(ws, blank)] = row]

\* a delete that takes the row below the one addressed
delete_rows_below(ws, r) ==
  IF r + 1 \in 1..Len(ws)
  THEN [i \in 1..(Len(ws) - 1) |-> IF i < r + 1 THEN ws[i] ELSE ws[i + 1]]
  ELSE ws

\* delete_rows(r): the rows below r move up by one
delete_rows(ws, r) ==
  IF r \in 1..Len(ws)
  THEN [i \in 1..(Len(ws) - 1) |-> IF i < r THEN ws[i] ELSE ws[i + 1]]
  ELSE ws

\* an update over A{r}:F{r} with an empty sixth value
update_AF(ws, r, a, b, c, d, e) ==
  [Pad(ws, r, BlankTrans) EXCEPT
     ![r] = [@ EXCEPT !.date = a, !.type = b, !.category = c,
                      !.amount = d, !.note = e, !.project_name = ""]]

\* update(range_name="A{r}:E{r}", values=[[a, b, c, d, e]])
update_AE(ws, r, a, b, c, d, e) ==
  [Pad(ws, r, BlankTrans) EXCEPT
     ![r] = [@ EXCEPT !.date = a, !.type = b, !.category = c,
                      !.amount = d, !.note = e]]

\* a start_date write that inserts a row at r instead of writing into it
update_cell_3_inserting(ws, r, v) ==
  [i \in 1..(Len(Pad(ws, r, BlankProj)) + 1) |->
     IF i < r THEN Pad(ws, r, BlankProj)[i]
     ELSE IF i = r THEN [BlankProj EXCEPT !.start_date = v]
     ELSE Pad(ws, r, BlankProj)[i - 1]]

\* a progress write that closes the project when it reaches 100
update_cell_5_closing(ws, r, v) ==
  [Pad(ws, r, BlankProj) EXCEPT
     ![r] = [@ EXCEPT !.progress = v,
                      !.status = IF v = <<"num", 100>> THEN "closed" ELSE @]]

\* update_cell(r, 3 | 4 | 5 | 7, value)
update_cell_3(ws, r, v) ==
  [Pad(ws, r, BlankProj) EXCEPT ![r] = [@ EXCEPT !.start_date = v]]
update_cell_4(ws, r, v) ==
  [Pad(ws, r, BlankProj) EXCEPT ![r] = [@ EXCEPT !.status = v]]
update_cell_5(ws, r, v) ==
  [Pad(ws, r, BlankProj) EXCEPT ![r] = [@ EXCEPT !.progress = v]]
update_cell_7(ws, r, v) ==
  [Pad(ws, r, BlankProj) EXCEPT ![r] = [@ EXCEPT !.end_date = v]]

\* the created_at cell of physical row r (0: the row is empty)
StampAt(ws, r) == IF r \in 1..Len(ws) THEN ws[r].created_at ELSE 0

(***************************************************************************)
(* Python indexing: lists are 0-based, the model's sequences 1-based.      *)
(***************************************************************************)
PyAt(list, i) == list[i + 1]
PyInRange(list, i) == i >= 0 /\ i < Len(list)

RECURSIVE SumSeq(_)
SumSeq(q) == IF q = << >> THEN 0 ELSE q[1] + SumSeq(Tail(q))

RECURSIVE SortedSeq(_)
SortedSeq(S) ==
  IF S = {} THEN << >>
  ELSE LET m == CHOOSE x \in S : \A y \in S : x <= y
       IN  <<m>> \o SortedSeq(S \ {m})

(***************************************************************************)
(* Typed views (lines 54-76).                                              *)
(***************************************************************************)
df_trans_of(raw) ==
  IF Len(raw) > 1
  THEN [i \in 1..(Len(raw) - 1) |->
          [PyAt(raw, i) EXCEPT !.amount = to_numeric(@),
                               !.date = to_datetime(@)]]
  ELSE << >>

\* (the end_date default of lines 75-76 feeds the timeline chart only)
df_projs_of(raw) ==
  IF Len(raw) > 1
  THEN [i \in 1..(Len(raw) - 1) |->
          [PyAt(raw, i) EXCEPT !.total_budget = to_numeric(@),
                               !.progress = to_numeric(@),
                               !.start_date = to_datetime(@)]]
  ELSE << >>

(***************************************************************************)
(* Aggregation (lines 84-114, 187-209).                                    *)
(***************************************************************************)
AmountsOf(df, ty) ==
  LET rows == SelectSeq(df, LAMBDA t : t.type = ty)
  IN  [i \in 1..Len(rows) |-> rows[i].amount]

\* line 90
total_balance_of(df) ==
  SumSeq(AmountsOf(df, "income")) - SumSeq(AmountsOf(df, "expense"))

\* the rows of month key m; rows whose date is NaT belong to no group
MonthRows(df, m) ==
  SelectSeq(df, LAMBDA t : t.date # NaT /\ MonthOf(t.date) = m)

MonthKeys(df) ==
  {MonthOf(df[i].date) : i \in {j \in 1..Len(df) : df[j].date # NaT}}

\* a net that adds the expenses
MonthNet_adding(income, expense) == income + expense

\* line 114: (income - expense) of one month
MonthNet(income, expense) == income - expense

\* lines 110-114: one entry per month key, ascending, with the running sum
monthly_stats_of(df) ==
  LET keys == SortedSeq(MonthKeys(df))
      inc(k) == SumSeq(AmountsOf(MonthRows(df, keys[k]), "income"))
      exp(k) == SumSeq(AmountsOf(MonthRows(df, keys[k]), "expense"))
      nets == [k \in 1..Len(keys) |-> MonthNet(inc(k), exp(k))]
  IN  [k \in 1..Len(keys) |->
         [Month |-> keys[k], income |-> inc(k), expense |-> exp(k),
          Cumulative |-> SumSeq(SubSeq(nets, 1, k))]]

\* the entries of a profitability sequence by ascending profit
RECURSIVE ByProfit(_)
ByProfit(q) ==
  IF q = << >> THEN << >>
  ELSE LET m == CHOOSE i \in 1..Len(q) :
                  /\ \A j \in 1..Len(q) : q[i].profit <= q[j].profit
                  /\ \A j \in 1..(i - 1) : q[j].profit > q[i].profit
       IN  <<q[m]>> \o ByProfit(SubSeq(q, 1, m - 1) \o SubSeq(q, m + 1, Len(q)))

\* a profitability sequence ranked by ascending profit
proj_view_ranked(dfp, dft) ==
  ByProfit([i \in 1..Len(dfp) |->
     LET p_trans == SelectSeq(dft, LAMBDA t : t.project_name = dfp[i].name)
         p_cost == SumSeq(AmountsOf(p_trans, "expense"))
         p_rev == SumSeq(AmountsOf(p_trans, "income"))
     IN  [name |-> dfp[i].name, status |-> dfp[i].status,
          progress |-> dfp[i].progress, cost |-> p_cost,
          profit |-> p_rev - p_cost]])

\* lines 189-208: one entry per project row, in the order of the rows
proj_view_of(dfp, dft) ==
  [i \in 1..Len(dfp) |->
     LET p_trans == SelectSeq(dft, LAMBDA t : t.project_name = dfp[i].name)
         p_cost == SumSeq(AmountsOf(p_trans, "expense"))
         p_rev == SumSeq(AmountsOf(p_trans, "income"))
     IN  [name |-> dfp[i].name, status |-> dfp[i].status,
          progress |-> dfp[i].progress, cost |-> p_cost,
          profit |-> p_rev - p_cost]]

view_of(rt, rp) ==
  [total_balance |-> total_balance_of(df_trans_of(rt)),
   monthly_stats |-> monthly_stats_of(df_trans_of(rt)),
   proj_view |-> proj_view_of(df_projs_of(rp), df_trans_of(rt))]

NoView == [total_balance |-> 0, monthly_stats |-> << >>, proj_view |-> << >>]

(***************************************************************************)
(* Row handles and edit forms (lines 212-231, 264-272).                    *)
(***************************************************************************)
\* a handle that counts the header twice
Handle_plus2(i) == i + 2

\* lines 212, 264: the handle of the row at enumerate index i
Handle(i) == i + 1

\* the enumerate indices that get an option: i > 0
OptionIndices(raw) == {i \in 0..(Len(raw) - 1) : i > 0}

\* lines 267-271: cr = raw_trans[r-1], strptime(cr[0]) if cr[0], float(cr[3]) if cr[3]
TransFormRaises(raw, r) ==
  \/ ~PyInRange(raw, r - 1)
  \/ /\ PyAt(raw, r - 1).date # NoDate
     /\ StrptimeRaises(PyAt(raw, r - 1).date)
  \/ /\ PyAt(raw, r - 1).amount # EmptyCell
     /\ FloatRaises(PyAt(raw, r - 1).amount)

\* lines 216-219: curr = raw_projs[r_num-1], int(float(curr[4]))
ProjFormRaises(raw, r) ==
  \/ ~PyInRange(raw, r - 1)
  \/ FloatRaises(PyAt(raw, r - 1).progress)

\* tab1 is rendered before tab2 and tab3: some project selection renders
Tab1Renders(raw) ==
  \/ Len(raw) <= 1
  \/ \E i \in OptionIndices(raw) : ~ProjFormRaises(raw, Handle(i))

(***************************************************************************)
(* State of a session: the position of its script run, what the run read,  *)
(* what it derived, how the last finished run ended, and the cell writes   *)
(* of update_project still to be issued.  log is the last request sent to  *)
(* the store: the operation, the session, the enumerate index and handle   *)
(* selected, the created_at of the record selected in the session's read   *)
(* and the created_at of the rows the request's writes reached; actors is  *)
(* the set of sessions that have written to the store.                     *)
(***************************************************************************)
NoRaw == << >>
NoPend == [r |-> 0, k |-> 0, sel |-> 0, es |-> "", ep |-> 0, ne |-> NoDate,
           hits |-> << >>]
NoLog == [op |-> "none", s |-> 0, k |-> 0, r |-> 0, sel |-> 0, hits |-> << >>]

EmptyLedger ==
  /\ ws_trans = <<TransHeader>>
  /\ ws_projs = <<ProjsHeader>>

InitSessions ==
  /\ clock = 0
  /\ pc = [s \in Sessions |-> "start"]
  /\ raw_trans = [s \in Sessions |-> NoRaw]
  /\ raw_projs = [s \in Sessions |-> NoRaw]
  /\ view = [s \in Sessions |-> NoView]
  /\ outcome = [s \in Sessions |-> "ok"]
  /\ pend = [s \in Sessions |-> NoPend]
  /\ log = NoLog
  /\ actors = {}

\* init_sheets on a spreadsheet without the two worksheets (lines 32-41)
Init == EmptyLedger /\ InitSessions

\* the script run ends (st.rerun(), the end of the script, or an exception)
EndRun(s, result) ==
  /\ pc' = [pc EXCEPT ![s] = "start"]
  /\ raw_trans' = [raw_trans EXCEPT ![s] = NoRaw]
  /\ raw_projs' = [raw_projs EXCEPT ![s] = NoRaw]
  /\ view' = [view EXCEPT ![s] = NoView]
  /\ outcome' = [outcome EXCEPT ![s] = result]
  /\ pend' = [pend EXCEPT ![s] = NoPend]

\* lines 53-114: the reads and what is derived from them
Read(s) ==
  /\ pc[s] = "start"
  /\ pc' = [pc EXCEPT ![s] = "ready"]
  /\ raw_trans' = [raw_trans EXCEPT ![s] = get_all_values(ws_trans, BlankTrans)]
  /\ raw_projs' = [raw_projs EXCEPT ![s] = get_all_values(ws_projs, BlankProj)]
  /\ view' = [view EXCEPT ![s] =
                view_of(get_all_values(ws_trans, BlankTrans),
                        get_all_values(ws_projs, BlankProj))]
  /\ UNCHANGED <<ws_trans, ws_projs, clock, outcome, pend, log, actors>>

\* a run in which no button is pressed: the edit forms of the selected
\* project (enumerate index kp) and transaction (kt) are rendered
render(s, kp, kt) ==
  /\ pc[s] = "ready"
  /\ kp \in OptionIndices(raw_projs[s]) \cup
            (IF OptionIndices(raw_projs[s]) = {} THEN {0} ELSE {})
  /\ kt \in OptionIndices(raw_trans[s]) \cup
            (IF OptionIndices(raw_trans[s]) = {} THEN {0} ELSE {})
  /\ EndRun(s, IF \/ kp # 0 /\ ProjFormRaises(raw_projs[s], Handle(kp))
                  \/ kt # 0 /\ TransFormRaises(raw_trans[s], Handle(kt))
               THEN "error" ELSE "ok")
  /\ UNCHANGED <<ws_trans, ws_projs, clock, log, actors>>

\* lines 252: the options of the project select box of the add form
p_list(raw) ==
  {Overhead} \cup {PyAt(raw, i).name : i \in OptionIndices(raw)}

\* lines 253-257
submit_transaction(s, d, ty, ca, am, no, pr) ==
  /\ pc[s] = "ready"
  /\ Tab1Renders(raw_projs[s])
  /\ am >= 0
  /\ pr \in p_list(raw_projs[s])
  /\ clock' = clock + 1
  /\ ws_trans' = append_row(ws_trans,
                   [date |-> d, type |-> ty, category |-> ca,
                    amount |-> Num(am), note |-> no, project_name |-> pr,
                    created_at |-> clock + 1], BlankTrans)
  /\ log' = [op |-> "submit_transaction", s |-> s, k |-> 0,
             r |-> AppendIndex(ws_trans, BlankTrans), sel |-> 0,
             hits |-> <<clock + 1>>]
  /\ actors' = actors \cup {s}
  /\ EndRun(s, "ok")
  /\ UNCHANGED ws_projs

\* an update that compares the sheet with what the run read and refuses to
\* write when they differ
update_transaction_checked(s, k, nd, nc, na, nn) ==
  /\ pc[s] = "ready"
  /\ Tab1Renders(raw_projs[s])
  /\ k \in OptionIndices(raw_trans[s])
  /\ IF \/ TransFormRaises(raw_trans[s], Handle(k))
        \/ raw_trans[s] # get_all_values(ws_trans, BlankTrans)
     THEN /\ EndRun(s, "error")
          /\ UNCHANGED <<ws_trans, log, actors>>
     ELSE /\ ws_trans' = update_AE(ws_trans, Handle(k), nd,
                           PyAt(raw_trans[s], Handle(k) - 1).type,
                           nc, Num(na), nn)
          /\ log' = [op |-> "update_transaction", s |-> s, k |-> k,
                     r |-> Handle(k),
                     sel |-> PyAt(raw_trans[s], k).created_at,
                     hits |-> <<StampAt(ws_trans, Handle(k))>>]
          /\ actors' = actors \cup {s}
          /\ EndRun(s, "ok")
  /\ UNCHANGED <<ws_projs, clock>>

\* lines 264-274: the edit form of the transaction at enumerate index k
update_transaction(s, k, nd, nc, na, nn) ==
  /\ pc[s] = "ready"
  /\ Tab1Renders(raw_projs[s])
  /\ k \in OptionIndices(raw_trans[s])
  /\ IF TransFormRaises(raw_trans[s], Handle(k))
     THEN /\ EndRun(s, "error")
          /\ UNCHANGED <<ws_trans, log, actors>>
     ELSE /\ ws_trans' = update_AE(ws_trans, Handle(k), nd,
                           PyAt(raw_trans[s], Handle(k) - 1).type,
                           nc, Num(na), nn)
          /\ log' = [op |-> "update_transaction", s |-> s, k |-> k,
                     r |-> Handle(k),
                     sel |-> PyAt(raw_trans[s], k).created_at,
                     hits |-> <<StampAt(ws_trans, Handle(k))>>]
          /\ actors' = actors \cup {s}
          /\ EndRun(s, "ok")
  /\ UNCHANGED <<ws_projs, clock>>

\* lines 264-272, 275
delete_transaction(s, k) ==
  /\ pc[s] = "ready"
  /\ Tab1Renders(raw_projs[s])
  /\ k \in OptionIndices(raw_trans[s])
  /\ IF TransFormRaises(raw_trans[s], Handle(k))
     THEN /\ EndRun(s, "error")
          /\ UNCHANGED <<ws_trans, log, actors>>
     ELSE /\ ws_trans' = delete_rows(ws_trans, Handle(k))
          /\ log' = [op |-> "delete_transaction", s |-> s, k |-> k,
                     r |-> Handle(k),
                     sel |-> PyAt(raw_trans[s], k).created_at,
                     hits |-> <<StampAt(ws_trans, Handle(k))>>]
          /\ actors' = actors \cup {s}
          /\ EndRun(s, "ok")
  /\ UNCHANGED <<ws_projs, clock>>

\* lines 167-184
submit_project(s, p_name, p_budget, p_status, p_progress, p_start, p_end) ==
  /\ pc[s] = "ready"
  /\ p_budget >= 0
  /\ p_progress \in 0..100
  /\ clock' = clock + 1
  /\ ws_projs' = append_row(ws_projs,
                   [name |-> p_name, total_budget |-> Num(p_budget),
                    start_date |-> p_start, status |-> p_status,
                    progress |-> Num(p_progress), created_at |-> clock + 1,
                    end_date |-> p_end], BlankProj)
  /\ log' = [op |-> "submit_project", s |-> s, k |-> 0,
             r |-> AppendIndex(ws_projs, BlankProj), sel |-> 0,
             hits |-> <<clock + 1>>]
  /\ actors' = actors \cup {s}
  /\ EndRun(s, "ok")
  /\ UNCHANGED ws_trans

\* lines 212-235: the edit form of the project at enumerate index k, and
\* the first of the four cell writes of its update button
update_project(s, k, es, ep, new_start, new_end) ==
  /\ pc[s] = "ready"
  /\ k \in OptionIndices(raw_projs[s])
  /\ ep \in 0..100
  /\ IF ProjFormRaises(raw_projs[s], Handle(k))
     THEN /\ EndRun(s, "error")
          /\ UNCHANGED <<ws_projs, log, actors>>
     ELSE /\ ws_projs' = update_cell_3(ws_projs, Handle(k), new_start)
          /\ pend' = [pend EXCEPT ![s] =
                        [r |-> Handle(k), k |-> k,
                         sel |-> PyAt(raw_projs[s], k).created_at,
                         es |-> es, ep |-> ep, ne |-> new_end,
                         hits |-> <<StampAt(ws_projs, Handle(k))>>]]
          /\ pc' = [pc EXCEPT ![s] = "cell4"]
          /\ actors' = actors \cup {s}
          /\ UNCHANGED <<raw_trans, raw_projs, view, outcome, log>>
  /\ UNCHANGED <<ws_trans, clock>>

\* line 236
update_project_status(s) ==
  /\ pc[s] = "cell4"
  /\ ws_projs' = update_cell_4(ws_projs, pend[s].r, pend[s].es)
  /\ pend' = [pend EXCEPT ![s].hits = Append(@, StampAt(ws_projs, pend[s].r))]
  /\ pc' = [pc EXCEPT ![s] = "cell5"]
  /\ UNCHANGED <<ws_trans, clock, raw_trans, raw_projs, view, outcome, log,
               actors>>

\* line 237
update_project_progress(s) ==
  /\ pc[s] = "cell5"
  /\ ws_projs' = update_cell_5(ws_projs, pend[s].r, Num(pend[s].ep))
  /\ pend' = [pend EXCEPT ![s].hits = Append(@, StampAt(ws_projs, pend[s].r))]
  /\ pc' = [pc EXCEPT ![s] = "cell7"]
  /\ UNCHANGED <<ws_trans, clock, raw_trans, raw_projs, view, outcome, log,
               actors>>

\* lines 238-239
update_project_end(s) ==
  /\ pc[s] = "cell7"
  /\ ws_projs' = update_cell_7(ws_projs, pend[s].r, pend[s].ne)
  /\ log' = [op |-> "update_project", s |-> s, k |-> pend[s].k,
             r |-> pend[s].r, sel |-> pend[s].sel,
             hits |-> Append(pend[s].hits, StampAt(ws_projs, pend[s].r))]
  /\ actors' = actors \cup {s}
  /\ EndRun(s, "ok")
  /\ UNCHANGED <<ws_trans, clock>>

\* lines 212-231, 240
delete_project(s, k) ==
  /\ pc[s] = "ready"
  /\ k \in OptionIndices(raw_projs[s])
  /\ IF ProjFormRaises(raw_projs[s], Handle(k))
     THEN /\ EndRun(s, "error")
          /\ UNCHANGED <<ws_projs, log, actors>>
     ELSE /\ ws_projs' = delete_rows(ws_projs, Handle(k))
          /\ log' = [op |-> "delete_project", s |-> s, k |-> k,
                     r |-> Handle(k),
                     sel |-> PyAt(raw_projs[s], k).created_at,
                     hits |-> <<StampAt(ws_projs, Handle(k))>>]
          /\ actors' = actors \cup {s}
          /\ EndRun(s, "ok")
  /\ UNCHANGED <<ws_trans, clock>>

(***************************************************************************)
(* Input sets and caps of the specifications.                              *)
(***************************************************************************)
Types == {"income", "expense"}
Enum(options) == {options[i] : i \in 1..Len(options)}

\* what the edit form of a transaction is filled with
EditDates == {D2}
EditCategories == {"rent"}
EditAmounts == {-5, 7}
EditNotes == {"memo"}

\* fewer than n data rows and the clock below its cap c
RoomIn(ws, n, c) == Len(ws) <= n /\ clock < c

(***************************************************************************)
(* Spec: one session on a spreadsheet that starts without the worksheets.  *)
(***************************************************************************)
Next ==
  \E s \in {1} :
    \/ Read(s)
    \/ \E kp \in 0..MaxRows, kt \in 0..MaxRows : render(s, kp, kt)
    \/ \E ty \in Types, pr \in {Overhead, "Alpha"} :
         /\ RoomIn(ws_trans, MaxRows, MaxClock)
         /\ submit_transaction(s, D1, ty, "project", 5, "", pr)
    \/ \E k \in 1..MaxRows, nd \in EditDates, nc \in EditCategories,
          na \in EditAmounts, nn \in EditNotes :
         update_transaction(s, k, nd, nc, na, nn)
    \/ \E k \in 1..MaxRows : delete_transaction(s, k)
    \/ /\ RoomIn(ws_projs, MaxRows, MaxClock)
       /\ submit_project(s, "Alpha", 1000, "active", 0, D1, D2)
    \/ \E k \in 1..MaxRows, es \in {"closed"} :
         update_project(s, k, es, 100, D2, D3)
    \/ update_project_status(s)
    \/ update_project_progress(s)
    \/ update_project_end(s)
    \/ \E k \in 1..MaxRows : delete_project(s, k)

Spec == Init /\ [][Next]_vars

(***************************************************************************)
(* Steps of the store-writing operations, as seen by the properties.       *)
(***************************************************************************)
Ks == 1..(MaxRows + 1)

Addressed == {"update_transaction", "delete_transaction",
              "update_project", "delete_project"}

\* row r of old is gone in new, and nothing else has changed
RowRemoved(old, new, r) ==
  /\ Len(new) = Len(old) - 1
  /\ \A p \in 1..(r - 1) : new[p] = old[p]
  /\ \A p \in (r + 1)..Len(old) : new[p - 1] = old[p]

\* C1 (as stated): the handle offered for the record at logical position k
\* is physical row k + 2.
C1_HandleIsKPlus2 ==
  log.op \in Addressed => log.r = log.k + 2

\* C1 (amended): the handle offered for the record at logical position k of
\* a table of header plus n data rows is physical row k + 1, for every k in
\* 1..n, and an update or delete issued through it acts on that record.
C1_HandleIsKPlus1 ==
  /\ \A s \in Sessions :
       pc[s] = "ready" =>
         /\ {Handle(i) : i \in OptionIndices(raw_trans[s])}
              = {k + 1 : k \in 1..(Len(raw_trans[s]) - 1)}
         /\ {Handle(i) : i \in OptionIndices(raw_projs[s])}
              = {k + 1 : k \in 1..(Len(raw_projs[s]) - 1)}
  /\ log.op \in Addressed =>
       /\ log.r = log.k + 1
       /\ log.sel > 0
       /\ \A i \in 1..Len(log.hits) : log.hits[i] = log.sel

\* header + 3 data rows, logical position 2: the update went to row 3
C1_Witness ==
  /\ log.op = "update_transaction"
  /\ Len(ws_trans) = 4
  /\ log.k = 2 /\ log.r = 3
  /\ log.hits = <<ws_trans[3].created_at>>
  /\ ws_trans[3].note = "memo"

\* C2: delete_transaction(r) and delete_project(r), for the physical row r
\* of an existing data record, remove exactly that row: the rows before r
\* keep position and content, every row formerly at p > r is found unchanged
\* at p - 1, and the table has one row fewer.
C2_DeleteRemovesExactlyRow ==
  [][\A s \in Sessions, k \in Ks :
       /\ (/\ pc[s] = "ready" /\ pc'[s] = "start"
           /\ delete_transaction(s, k)
           /\ ~TransFormRaises(raw_trans[s], Handle(k))
           /\ Handle(k) \in 2..Len(ws_trans))
          => RowRemoved(ws_trans, ws_trans', Handle(k))
       /\ (/\ pc[s] = "ready" /\ pc'[s] = "start"
           /\ delete_project(s, k)
           /\ ~ProjFormRaises(raw_projs[s], Handle(k))
           /\ Handle(k) \in 2..Len(ws_projs))
          => RowRemoved(ws_projs, ws_projs', Handle(k))]_vars

\* physical row 2 was deleted and a later record has moved up to row 2
C2_Witness ==
  /\ log.op = "delete_transaction"
  /\ log.r = 2
  /\ Len(ws_trans) >= 3
  /\ ws_trans[2].created_at > log.hits[1]

\* C3: update_transaction in a single session changes only date, category,
\* amount and note of the target row: its type, project_name and created_at
\* are as before, every other row of Transactions and the whole Projects
\* table are unchanged.
C3_UpdateFrame ==
  [][\A s \in Sessions, k \in Ks :
       (/\ pc[s] = "ready" /\ pc'[s] = "start"
        /\ \E nd \in EditDates, nc \in EditCategories, na \in EditAmounts,
              nn \in EditNotes : update_transaction(s, k, nd, nc, na, nn)
        /\ ~TransFormRaises(raw_trans[s], Handle(k)))
       => /\ Len(ws_trans') = Len(ws_trans)
          /\ \A p \in 1..Len(ws_trans) :
               IF p = Handle(k)
               THEN /\ ws_trans'[p].type = ws_trans[p].type
                    /\ ws_trans'[p].project_name = ws_trans[p].project_name
                    /\ ws_trans'[p].created_at = ws_trans[p].created_at
               ELSE ws_trans'[p] = ws_trans[p]
          /\ ws_projs' = ws_projs]_vars

\* an income of project Alpha was edited and is still an income of Alpha
C3_Witness ==
  /\ log.op = "update_transaction"
  /\ Len(ws_trans) >= 3 /\ Len(ws_projs) >= 2
  /\ log.r \in 2..Len(ws_trans)
  /\ ws_trans[log.r].type = "income"
  /\ ws_trans[log.r].project_name = "Alpha"
  /\ ws_trans[log.r].created_at = log.sel
  /\ ws_trans[log.r].date = D2
  /\ ws_trans[log.r].category = "rent"
  /\ ws_trans[log.r].note = "memo"

\* C4: every stored transaction has amount >= 0.
C4_AmountNonNegative ==
  \A p \in 2..Len(ws_trans) :
    ws_trans[p].amount[1] = "num" => ws_trans[p].amount[2] >= 0

(***************************************************************************)
(* SpecRace: two sessions on the Transactions worksheet.  Nothing orders   *)
(* one session's read and write against the other session's requests.      *)
(***************************************************************************)
RaceAmounts == {7}

NextRace ==
  \E s \in Sessions :
    \/ Read(s)
    \/ /\ RoomIn(ws_trans, MaxRaceRows, MaxRaceClock)
       /\ submit_transaction(s, D1, "expense", "project", 5, "", Overhead)
    \/ \E k \in OptionIndices(raw_trans[s]), nd \in EditDates, nc \in EditCategories,
          na \in RaceAmounts, nn \in EditNotes :
         update_transaction(s, k, nd, nc, na, nn)
    \/ \E k \in OptionIndices(raw_trans[s]) : delete_transaction(s, k)

SpecRace == Init /\ [][NextRace]_vars

\* C5: a write addressed by a row index computed from the session's own
\* read is applied, without detection or error, to whatever is at that
\* physical index when it arrives, also when another session has deleted or
\* updated rows since the read.
C5_StaleWriteApplied ==
  [][\A s \in Sessions : \A k \in OptionIndices(raw_trans[s]) :
       /\ \A nd \in EditDates, nc \in EditCategories, na \in RaceAmounts,
             nn \in EditNotes :
            (/\ pc[s] = "ready" /\ pc'[s] = "start"
             /\ update_transaction(s, k, nd, nc, na, nn)
             /\ ~TransFormRaises(raw_trans[s], Handle(k)))
            => /\ outcome'[s] = "ok"
               /\ Handle(k) \in 1..Len(ws_trans')
               /\ ws_trans'[Handle(k)].date = nd
               /\ ws_trans'[Handle(k)].category = nc
               /\ ws_trans'[Handle(k)].amount = Num(na)
               /\ ws_trans'[Handle(k)].note = nn
               /\ ws_trans'[Handle(k)].created_at
                    = StampAt(ws_trans, Handle(k))
       /\ (/\ pc[s] = "ready" /\ pc'[s] = "start"
           /\ delete_transaction(s, k)
           /\ ~TransFormRaises(raw_trans[s], Handle(k)))
          => /\ outcome'[s] = "ok"
             /\ Handle(k) \in 2..Len(ws_trans)
                  => RowRemoved(ws_trans, ws_trans', Handle(k))]_vars

\* wrong-row mutation: the update of one session reached, without error, a
\* record other than the one its user selected, after the other session's
\* delete had moved the rows
C5_Witness ==
  /\ log.op = "update_transaction"
  /\ actors = Sessions
  /\ log.sel > 0 /\ log.hits[1] > 0
  /\ log.hits[1] # log.sel
  /\ outcome[log.s] = "ok"
  /\ ws_trans[log.r].created_at = log.hits[1]
  /\ ws_trans[log.r].note = "memo"
  /\ \A p \in 1..Len(ws_trans) : ws_trans[p].created_at # log.sel

(***************************************************************************)
(* SpecProjects: two sessions on the Projects worksheet.  The four cell    *)
(* writes of update_project are four requests; the other session's         *)
(* requests may arrive between them.  Session 1 inserts, edits and deletes *)
(* projects; session 2 deletes the first project its read lists.           *)
(***************************************************************************)
NextProjects ==
  \/ \E s \in Sessions : Read(s)
  \/ \E s \in {2} : delete_project(s, 1)
  \/ \E s \in {1} :
       \/ \E k \in OptionIndices(raw_projs[s]) : delete_project(s, k)
       \/ /\ RoomIn(ws_projs, MaxProjRows, MaxProjClock)
          /\ submit_project(s, "Alpha", 1000, "active", 0, D1, D2)
       \/ \E k \in OptionIndices(raw_projs[s]) :
            update_project(s, k, "closed", 100, D1, D2)
       \/ update_project_status(s)
       \/ update_project_progress(s)
       \/ update_project_end(s)

SpecProjects == Init /\ [][NextProjects]_vars

\* the Projects table left by one split update (closed, 100): its
\* start_date write reached the selected record, the other session then
\* deleted that row, and the other three writes reached the record that
\* moved up into it
SplitTable ==
  <<ProjsHeader,
    [name |-> "Alpha", total_budget |-> Num(1000), start_date |-> D1,
     status |-> "closed", progress |-> Num(100), created_at |-> 2,
     end_date |-> D2]>>

NextStatus ==
  \E s \in {1} :
    \/ Read(s)
    \/ /\ RoomIn(ws_projs, MaxProjRows, MaxProjClock)
       /\ submit_project(s, "Alpha", 1000, "active", 0, D1, D2)
    \/ \E k \in OptionIndices(raw_projs[s]), es \in Enum(StatusOptions),
          ep \in {50, 100} :
         update_project(s, k, es, ep, D1, D2)
    \/ update_project_status(s)
    \/ update_project_progress(s)
    \/ update_project_end(s)
    \/ \E k \in OptionIndices(raw_projs[s]) : delete_project(s, k)

SpecStatus == Init /\ [][NextStatus]_vars

\* the status of the project record inserted at clock reading c ("" if the
\* record is not on the sheet)
StatusOf(ws, c) ==
  IF \E p \in 2..Len(ws) : ws[p].created_at = c
  THEN ws[CHOOSE p \in 2..Len(ws) : ws[p].created_at = c].status
  ELSE ""

\* C8: the status of a project is one of active, closed, paused; the update
\* form offers every status whatever the current one, and the status of a
\* project changes only by the status write of update_project, to the value
\* the user supplied: no other operation and no progress value changes it.
C8_StatusUserDriven ==
  /\ [](\A p \in 2..Len(ws_projs) :
          ws_projs[p].created_at > 0
            => ws_projs[p].status \in Enum(StatusOptions))
  /\ [](\A s \in Sessions :
          pc[s] = "ready" =>
            \A k \in OptionIndices(raw_projs[s]), es \in Enum(StatusOptions) :
              ENABLED update_project(s, k, es, 100, D1, D2))
  /\ [][\A c \in 1..(MaxProjClock + 1) :
          (/\ StatusOf(ws_projs, c) # ""
           /\ StatusOf(ws_projs', c) # ""
           /\ StatusOf(ws_projs', c) # StatusOf(ws_projs, c))
          => \E s \in Sessions :
               /\ pc[s] = "cell4" /\ pc'[s] = "cell5"
               /\ StatusOf(ws_projs', c) = pend[s].es]_vars

\* a project at progress 100 that its user has set to paused
C8_Witness ==
  /\ log.op = "update_project"
  /\ log.r \in 2..Len(ws_projs)
  /\ ws_projs[log.r].created_at = log.sel
  /\ ws_projs[log.r].progress = Num(100)
  /\ ws_projs[log.r].status = "paused"

(***************************************************************************)
(* SpecShared: one session on a spreadsheet whose Transactions worksheet   *)
(* exists already (init_sheets, line 32, takes it as it is): its cells are *)
(* whatever was typed into the sheet.                                      *)
(***************************************************************************)
LegacyDates == {D1, D2, NotADate}
LegacyAmounts == {Num(5), Abc, EmptyCell}

LegacyTypes == Types \cup {"other"}

LegacyTrans(i, projects) ==
  {[date |-> d, type |-> ty, category |-> "project", amount |-> a,
    note |-> "", project_name |-> pr, created_at |-> i] :
     d \in LegacyDates, ty \in LegacyTypes, a \in LegacyAmounts,
     pr \in projects}

\* the worksheets of a header and up to n rows drawn from rows, the row at
\* position i carrying created_at i
SheetsOf(header, rows, n) ==
  UNION {{<<header>> \o q :
            q \in {f \in [1..m -> rows] : \A i \in 1..m : f[i].created_at = i}} :
         m \in 0..n}

InitShared ==
  /\ ws_trans \in SheetsOf(TransHeader,
                         UNION {LegacyTrans(i, {Overhead}) :
                                  i \in 1..MaxLegacyRows},
                         MaxLegacyRows)
  /\ ws_projs = <<ProjsHeader>>
  /\ InitSessions

NextShared ==
  \E s \in {1} :
    \/ Read(s)
    \/ \E kt \in OptionIndices(raw_trans[s]) : render(s, 0, kt)
    \/ \E k \in OptionIndices(raw_trans[s]), nd \in EditDates,
          nc \in EditCategories, na \in {7}, nn \in EditNotes :
         update_transaction(s, k, nd, nc, na, nn)
    \/ \E k \in OptionIndices(raw_trans[s]) : delete_transaction(s, k)

SpecShared == InitShared /\ [][NextShared]_vars

\* the net column of the monthly series
Nets(ms) == [k \in 1..Len(ms) |-> ms[k].income - ms[k].expense]

\* C6: when every transaction date is non-null, the sum of net over the
\* months of the monthly series equals all_time_balance, and so does
\* cumulative_balance at the last month key (months ascending).
C6_MonthlySumIsBalance ==
  \A s \in Sessions :
    (/\ pc[s] = "ready"
     /\ \A i \in 1..Len(df_trans_of(raw_trans[s])) :
          df_trans_of(raw_trans[s])[i].date # NaT)
    => /\ SumSeq(Nets(view[s].monthly_stats)) = view[s].total_balance
       /\ \A k \in 1..(Len(view[s].monthly_stats) - 1) :
            view[s].monthly_stats[k].Month < view[s].monthly_stats[k + 1].Month
       /\ view[s].monthly_stats # << >> =>
            view[s].monthly_stats[Len(view[s].monthly_stats)].Cumulative
              = view[s].total_balance

\* two months, every date a date, a balance that is not zero
C6_Witness ==
  \E s \in Sessions :
    /\ pc[s] = "ready"
    /\ Len(raw_trans[s]) = 3
    /\ \A i \in 1..2 : df_trans_of(raw_trans[s])[i].date # NaT
    /\ Len(view[s].monthly_stats) = 2
    /\ view[s].monthly_stats[1].Cumulative = -5
    /\ view[s].total_balance = 0

\* C7: a stored transaction whose amount cell is non-numeric or whose date
\* cell is unparseable is recovered locally; no operation of the session,
\* selecting that record in the edit view included, ends in an error.
C7_NoErrorOutcome ==
  \A s \in Sessions : outcome[s] # "error"

(***************************************************************************)
(* SpecReport: one session on a spreadsheet that holds projects and        *)
(* transactions booked on them, on overhead, or on a name no project has.  *)
(***************************************************************************)
ReportTrans(i) ==
  {[date |-> D1, type |-> ty, category |-> "project", amount |-> a,
    note |-> "", project_name |-> pr, created_at |-> i] :
     ty \in Types, a \in {Num(5), Abc}, pr \in {"Alpha", "Beta", "alpha"}}

ReportProjs(i) ==
  {[name |-> nm, total_budget |-> Num(1000), start_date |-> D1,
    status |-> "active", progress |-> Num(0), created_at |-> i,
    end_date |-> D2] : nm \in {"Alpha", "Beta"}}

InitReport ==
  /\ ws_trans \in SheetsOf(TransHeader,
                         UNION {ReportTrans(i) : i \in 1..MaxLegacyRows},
                         MaxLegacyRows)
  /\ ws_projs \in SheetsOf(ProjsHeader,
                         UNION {ReportProjs(i) : i \in 1..MaxLegacyRows},
                         MaxLegacyRows)
  /\ InitSessions

NextReport ==
  \E s \in {1} :
    \/ Read(s)
    \/ \E kp \in OptionIndices(raw_projs[s]) \cup {0},
          kt \in OptionIndices(raw_trans[s]) \cup {0} : render(s, kp, kt)
    \/ \E k \in OptionIndices(raw_trans[s]) : delete_transaction(s, k)
    \/ \E k \in OptionIndices(raw_projs[s]) : delete_project(s, k)

SpecReport == InitReport /\ [][NextReport]_vars

\* the sum of the coerced amounts of the rows of raw booked on project name
\* nm with type ty
RECURSIVE Booked(_, _, _)
Booked(raw, nm, ty) ==
  IF Len(raw) <= 1 THEN 0
  ELSE Booked(SubSeq(raw, 1, Len(raw) - 1), nm, ty)
       + (IF raw[Len(raw)].project_name = nm /\ raw[Len(raw)].type = ty
          THEN to_numeric(raw[Len(raw)].amount) ELSE 0)

\* C9 (as stated): the profitability sequence is ordered by ascending
\* profit.
C9_AscendingProfit ==
  \A s \in Sessions :
    pc[s] = "ready" =>
      \A i \in 1..(Len(view[s].proj_view) - 1) :
        view[s].proj_view[i].profit <= view[s].proj_view[i + 1].profit

\* C9 (amended): the profitability sequence lists, for each project in the
\* order of the rows of the Projects table, profit = revenue - cost over
\* the transactions whose project_name equals the project's name exactly.
C9_TableOrderProfit ==
  \A s \in Sessions :
    pc[s] = "ready" =>
      /\ Len(view[s].proj_view) = Len(raw_projs[s]) - 1
      /\ \A i \in 1..Len(view[s].proj_view) :
           /\ view[s].proj_view[i].name = raw_projs[s][i + 1].name
           /\ view[s].proj_view[i].profit
                = Booked(raw_trans[s], raw_projs[s][i + 1].name, "income")
                  - Booked(raw_trans[s], raw_projs[s][i + 1].name, "expense")

\* two projects, the first with the larger profit, listed first
C9_Witness ==
  \E s \in Sessions :
    /\ pc[s] = "ready"
    /\ Len(view[s].proj_view) = 2
    /\ view[s].proj_view[1].name = "Alpha"
    /\ view[s].proj_view[1].profit = 5
    /\ view[s].proj_view[2].name = "Beta"
    /\ view[s].proj_view[2].profit = -5

====
